---- MODULE Spec2Model ----
(***************************************************************************)
(* Randomized smoothing (RandomizedSmoothingMixin) and the AutoAttack      *)
(* stub of the adversarial-robustness-toolbox, as a state machine.         *)
(*                                                                         *)
(* Representation of the numeric values:                                   *)
(*  - alpha is an exact rational <<num, den>>;                             *)
(*  - a probability in [0,1] is a cell of the grid {j/GridDen}: cell 2j is *)
(*    exactly j/GridDen, cell 2j+1 is the open interval between j/GridDen  *)
(*    and (j+1)/GridDen; the order of cells is the order of the reals and  *)
(*    cell Half is exactly 0.5; NaN is the float not-a-number;             *)
(*  - a standard-normal quantile is the cell of its probability shifted so *)
(*    that 0 is the quantile 0.0, -Half is -inf and Half is +inf;          *)
(*  - a radius is the class of the float: "nan", "-inf", "neg", "zero",    *)
(*    "pos", "+inf";                                                       *)
(*  - a noisy sample batch is its number of rows (the noise itself is      *)
(*    seen only by the wrapped classifier, whose scores are arbitrary).    *)
(***************************************************************************)
EXTENDS Integers, Sequences, FiniteSets, TLC

VARIABLES
    pc,            \* position: "new", "idle", "predict_loop", "certify_select",
                   \*           "certify_estimate", "returned", "raised"
    sample_size,   \* self.sample_size
    scale,         \* self.scale
    alpha,         \* self.alpha, <<num, den>>
    nb_classes,    \* number of columns the wrapped classifier returns
    op,            \* the running / last call: "none", "predict", "certify"
    x_len,         \* len(x) of the running call
    i,             \* number of inputs of x already processed
    is_abstain,    \* predict's flag
    n,             \* certify's n
    counts_pred,   \* local counts_pred
    class_select,  \* certify's local class_select
    counts_est,    \* certify's local counts_est
    count_class,   \* certify's local count_class
    prob_class,    \* certify's local prob_class
    n_abstained,   \* predict's local n_abstained
    prediction,    \* local list prediction
    radius,        \* certify's local list radius
    printed,       \* what predict printed: the abstention count, 0 if nothing
    calls,         \* batch sizes the wrapped classifier was invoked with, this call
    failed_at,     \* position in calls of the invocation that raised, 0 if none
    result,        \* value returned to the caller, <<>> while none
    error,         \* exception that left the call: "none", "ValueError",
                   \*   "InferenceError", "IndexError"
    attack_op,     \* last AutoAttack operation: "none", "generate", "set_params"
    attack_out     \* its outcome: "none", "None" (returned None), or an error name

vars == <<pc, sample_size, scale, alpha, nb_classes, op, x_len, i, is_abstain, n,
          counts_pred, class_select, counts_est, count_class, prob_class,
          n_abstained, prediction, radius, printed, calls, failed_at, result,
          error,
          attack_op, attack_out>>

\* ---------------------------------------------------------------- bounds
MaxSampleSize == 2
MaxN == 2
MaxClasses == 3
MaxInputs == 1
Grid == 2

\* ---------------------------------------------------------------- inputs
SampleSizes == -1 .. MaxSampleSize
Scales == {-1, 0, 1}
Alphas == {<<0, 1>>, <<1, 4>>, <<1, 2>>, <<1, 1>>}
Scores == {0, 1}
None == <<>>

\* ---------------------------------------------------------------- floats
GridDen == 2 * Grid
Half == GridDen
One == 2 * GridDen
\* outside the cells 0..One and the quantiles -Half..Half
NaN == 0 - (One + 1)

RECURSIVE Pow(_, _)
Pow(b, e) == IF e = 0 THEN 1 ELSE b * Pow(b, e - 1)

RECURSIVE Binomial(_, _)
Binomial(m, k) ==
    IF k < 0 \/ k > m THEN 0
    ELSE IF k = 0 THEN 1
    ELSE (Binomial(m, k - 1) * (m - k + 1)) \div k

RECURSIVE SumBinomial(_, _, _)
\* sum of Binomial(m, j) for j in lo..hi
SumBinomial(m, lo, hi) ==
    IF lo > hi THEN 0 ELSE Binomial(m, lo) + SumBinomial(m, lo + 1, hi)

\* float comparison x < y: False when either side is NaN
FloatLt(x, y) == x # NaN /\ y # NaN /\ x < y

\* ---------------------------------------------------------------- numpy
\* np.max
Max(f) == CHOOSE v \in {f[c] : c \in DOMAIN f} : \A d \in DOMAIN f : f[d] <= v

\* np.argmax: the first index holding the maximum
argmax(f) ==
    CHOOSE c \in DOMAIN f :
        /\ \A d \in DOMAIN f : f[d] <= f[c]
        /\ \A d \in DOMAIN f : d < c => f[d] < f[c]

\* position of index c in the ascending stable sort of f
SortRank(f, c) ==
    Cardinality({d \in DOMAIN f : f[d] < f[c] \/ (f[d] = f[c] /\ d < c)})

\* f.argsort(): indices in ascending order of f, equal values in index order
argsort(f) ==
    [p \in 0 .. Cardinality(DOMAIN f) - 1 |->
        CHOOSE c \in DOMAIN f : SortRank(f, c) = p]

\* a[::-1]
Reversed(a) ==
    [p \in DOMAIN a |-> a[Cardinality(DOMAIN a) - 1 - p]]

\* np.zeros(shape) for a vector over the classes
Zeros(K) == [c \in 0 .. K - 1 |-> 0]

\* v after v[c] = 1
OneHot(K, c) == [Zeros(K) EXCEPT ![c] = 1]

\* ---------------------------------------------------------------- scipy / statsmodels
\* p <= alpha for p = pnum / pden
LeqAlpha(pnum, pden) == pnum * alpha[2] <= alpha[1] * pden

\* scipy.stats.binom_test(x, m, p=0.5), two-sided: the p-value's numerator over
\* 2^m.  pmf(j) = Binomial(m, j) / 2^m; the relative tolerance 1e-7 of the
\* comparison of pmf values is below the gap between distinct pmf values here.
binom_test(x, m) ==
    LET d == Binomial(m, x)
        lower == {j \in 0 .. m \div 2 : Binomial(m, j) <= d}
        upper == {j \in (m + 1) \div 2 .. m : Binomial(m, j) <= d}
        pval ==
            IF 2 * x = m THEN Pow(2, m)
            ELSE IF 2 * x < m
                 THEN SumBinomial(m, 0, x)
                      + SumBinomial(m, m - Cardinality(upper) + 1, m)
                 ELSE SumBinomial(m, 0, Cardinality(lower) - 1)
                      + SumBinomial(m, x, m)
    IN  IF pval > Pow(2, m) THEN Pow(2, m) ELSE pval

\* P(Bin(m, j/GridDen) >= k) * GridDen^m: the regularized incomplete beta
\* function I_q(k, m-k+1) at q = j/GridDen, scaled to an integer
RECURSIVE BetaCdfSum(_, _, _, _)
BetaCdfSum(k, m, j, t) ==
    IF t > m THEN 0
    ELSE (IF t >= k THEN Binomial(m, t) * Pow(j, t) * Pow(GridDen - j, m - t) ELSE 0)
         + BetaCdfSum(k, m, j, t + 1)

\* scipy.stats.beta.ppf(q, a, b) for q = alpha, a = k >= 1, b = m - k + 1: the
\* cell of the point where I_x(a, b) = alpha
BetaPpf(k, m) ==
    IF alpha[1] < 0 \/ alpha[1] > alpha[2] THEN NaN
    ELSE LET below == {j \in 0 .. GridDen :
                          BetaCdfSum(k, m, j, 0) * alpha[2] <= alpha[1] * Pow(GridDen, m)}
             j == CHOOSE a \in below : \A b \in below : b <= a
         IN  IF BetaCdfSum(k, m, j, 0) * alpha[2] = alpha[1] * Pow(GridDen, m)
             THEN 2 * j
             ELSE 2 * j + 1

\* scipy.stats.norm.ppf
norm_ppf(p) == IF p = NaN THEN NaN ELSE p - Half

\* float product scale * q of the integer-valued scale and a quantile
FloatMul(s, q) ==
    IF q = NaN THEN "nan"
    ELSE IF q = Half \/ q = 0 - Half
         THEN (IF s = 0 THEN "nan"
               ELSE IF (s > 0) = (q > 0) THEN "+inf" ELSE "-inf")
         ELSE IF s = 0 \/ q = 0 THEN "zero"
         ELSE IF (s > 0) = (q > 0) THEN "pos" ELSE "neg"


\* ---------------------------------------------------------------- helpers of the mixin
\* number of rows of the batch _noisy_samples builds; np.repeat raises
\* ValueError for a negative count
_noisy_samples(nn) ==
    LET m == IF nn = None THEN sample_size ELSE nn[1]
    IN  [err |-> IF m < 0 THEN "ValueError" ELSE "none", rows |-> m]

\* the wrapped classifier with K classes: any (rows, K) score matrix, or an exception
_predict_model(rows, K) ==
    {[err |-> "InferenceError", predictions |-> <<>>]}
    \cup {[err |-> "none", predictions |-> P] :
              P \in [0 .. rows - 1 -> [0 .. K - 1 -> Scores]]}

\* mutant of BinaryPredictions: every tied maximum of a row is marked
BinaryPredictionsTies(predictions, K) ==
    [r \in DOMAIN predictions |->
        [c \in 0 .. K - 1 |->
            IF predictions[r][c] = Max(predictions[r]) THEN 1 ELSE 0]]

\* pred after pred[np.arange(rows), idx] = 1 with idx = np.argmax(predictions, axis=-1)
BinaryPredictions(predictions, K) ==
    [r \in DOMAIN predictions |-> OneHot(K, argmax(predictions[r]))]

RECURSIVE ColumnSum(_, _, _)
\* sum of pred[r][c] over the rows r, r+1, ...
ColumnSum(pred, c, r) ==
    IF r \notin DOMAIN pred THEN 0 ELSE pred[r][c] + ColumnSum(pred, c, r + 1)

\* np.sum(pred, axis=0)
ClassCounts(predictions, K) ==
    LET pred == BinaryPredictions(predictions, K)
    IN  [c \in 0 .. K - 1 |-> ColumnSum(pred, c, 0)]

\* lines 181-191 of _prediction_counts for a batch of `rows` samples: what the
\* classifier's outcome o becomes
CountsOutcome(o, rows, K) ==
    [err |-> o.err, invoked |-> <<rows>>,
     counts |-> IF o.err = "none" THEN ClassCounts(o.predictions, K) ELSE <<>>]

\* CountsOutcome over every outcome of the classifier, computed once for each
\* batch size and number of classes
MaxRows == IF MaxSampleSize > MaxN THEN MaxSampleSize ELSE MaxN

OutcomeTable ==
    UNION {{<<rows, K, CountsOutcome(o, rows, K)>> : o \in _predict_model(rows, K)} :
               <<rows, K>> \in (0 .. MaxRows) \X (1 .. MaxClasses)}

\* outcomes of one _prediction_counts call: the exception or the counts, and
\* the batch size the classifier was invoked with (none when it was not reached)
_prediction_counts(nn) ==
    LET s == _noisy_samples(nn)
    IN  IF s.err # "none"
        THEN {[err |-> s.err, invoked |-> <<>>, counts |-> <<>>]}
        ELSE {t[3] : t \in {u \in OutcomeTable : u[1] = s.rows /\ u[2] = nb_classes}}

\* mutant of _lower_confidence_bound: the beta quantile without the zero-count
\* case (beta.ppf is nan for a first shape parameter of 0)
LowerBoundNoZeroCase(k, m) ==
    IF m = 0 \/ k = 0 THEN NaN ELSE BetaPpf(k, m)

\* proportion_confint(k, m, alpha=2*alpha, method="beta")[0]
_lower_confidence_bound(k, m) ==
    IF m = 0 THEN NaN
    ELSE IF k = 0 THEN 0
    ELSE BetaPpf(k, m)

\* count2 = counts_pred[top[1]] with top = counts_pred.argsort()[::-1]
SecondCount(counts) == counts[Reversed(argsort(counts))[1]]

\* mutant of Emits: the comparison with alpha is inverted
EmitsInverted(counts) ==
    LET count1 == Max(counts)
        count2 == SecondCount(counts)
    IN  (~is_abstain)
        \/ ~LeqAlpha(binom_test(count1, count1 + count2), Pow(2, count1 + count2))

\* the condition of the if that emits the arg-max class
Emits(counts) ==
    LET count1 == Max(counts)
        count2 == SecondCount(counts)
    IN  (~is_abstain)
        \/ LeqAlpha(binom_test(count1, count1 + count2), Pow(2, count1 + count2))

\* smooth_prediction of one input
smooth_prediction(counts) ==
    IF Emits(counts) THEN OneHot(nb_classes, argmax(counts)) ELSE Zeros(nb_classes)

\* mutant of Abstained: every input of an abstaining call is counted
AbstainedEveryInput(counts) ==
    IF is_abstain THEN n_abstained + 1 ELSE n_abstained

\* n_abstained after one input
Abstained(counts) ==
    IF ~Emits(counts) /\ is_abstain THEN n_abstained + 1 ELSE n_abstained

\* mutant of CountClass: the selection pass's votes are reused
CountClassFromSelection(pred_counts, est_counts, sel) == pred_counts[sel]

\* count_class = counts_est[class_select]
CountClass(pred_counts, est_counts, sel) == est_counts[sel]

\* the (class, radius) pair certify appends for one input
Certified(sel, prob) ==
    IF FloatLt(prob, Half)
    THEN <<0 - 1, "zero">>
    ELSE <<sel, FloatMul(scale, norm_ppf(prob))>>

\* ---------------------------------------------------------------- actions
Locals ==
    <<counts_pred, class_select, counts_est, count_class, prob_class,
      n_abstained, prediction, radius>>

Config == <<sample_size, scale, alpha, nb_classes>>

Attack == <<attack_op, attack_out>>

ClearLocals ==
    /\ counts_pred' = <<>>
    /\ class_select' = 0
    /\ counts_est' = <<>>
    /\ count_class' = 0
    /\ prob_class' = 0
    /\ n_abstained' = 0
    /\ prediction' = <<>>
    /\ radius' = <<>>

\* positions at which no call of the mixin is running; the program is
\* single-threaded, so another call starts only at one of these
Quiescent == {"new", "idle", "returned", "raised"}

Init ==
    /\ pc = "new"
    /\ sample_size = 0
    /\ scale = 0
    /\ alpha = <<0, 1>>
    /\ nb_classes = 1
    /\ op = "none"
    /\ x_len = 0
    /\ i = 0
    /\ is_abstain = TRUE
    /\ n = 0
    /\ counts_pred = <<>>
    /\ class_select = 0
    /\ counts_est = <<>>
    /\ count_class = 0
    /\ prob_class = 0
    /\ n_abstained = 0
    /\ prediction = <<>>
    /\ radius = <<>>
    /\ printed = 0
    /\ calls = <<>>
    /\ failed_at = 0
    /\ result = <<>>
    /\ error = "none"
    /\ attack_op = "none"
    /\ attack_out = "none"

\* RandomizedSmoothingMixin.__init__ over a classifier with K classes
__init__(ss, sc, al, K) ==
    /\ pc = "new"
    /\ pc' = "idle"
    /\ sample_size' = ss
    /\ scale' = sc
    /\ alpha' = al
    /\ nb_classes' = K
    /\ UNCHANGED <<op, x_len, i, is_abstain, n, Locals, printed, calls, failed_at,
                   result, error, Attack>>

\* mutant of Raise: the exception is swallowed and the loop goes on
RaiseSwallowed(err, invoked) ==
    /\ calls' = calls \o invoked
    /\ failed_at' = IF err = "InferenceError" THEN Len(calls) + 1 ELSE failed_at
    /\ UNCHANGED <<pc, Config, op, x_len, i, is_abstain, n, Locals, printed,
                   result, error, Attack>>

\* an exception leaves the running call: the frame is dropped, nothing is returned
Raise(err, invoked) ==
    /\ pc' = "raised"
    /\ error' = err
    /\ result' = <<>>
    /\ calls' = calls \o invoked
    /\ failed_at' = IF err = "InferenceError" THEN Len(calls) + 1 ELSE failed_at
    /\ ClearLocals
    /\ UNCHANGED <<Config, op, x_len, i, is_abstain, n, printed, Attack>>

CallPredict(len, abstain) ==
    /\ pc \in Quiescent \ {"new"}
    /\ pc' = "predict_loop"
    /\ op' = "predict"
    /\ x_len' = len
    /\ is_abstain' = abstain
    /\ i' = 0
    /\ ClearLocals
    /\ printed' = 0
    /\ calls' = <<>>
    /\ failed_at' = 0
    /\ result' = <<>>
    /\ error' = "none"
    /\ n' = 0
    /\ UNCHANGED <<Config, Attack>>

\* one pass of predict's loop body
PredictIteration ==
    /\ pc = "predict_loop"
    /\ i < x_len
    /\ \E o \in _prediction_counts(None) :
          IF o.err # "none" THEN Raise(o.err, o.invoked)
          ELSE IF nb_classes < 2 THEN Raise("IndexError", o.invoked)
          ELSE /\ counts_pred' = o.counts
               /\ prediction' = Append(prediction, smooth_prediction(o.counts))
               /\ n_abstained' = Abstained(o.counts)
               /\ i' = i + 1
               /\ calls' = calls \o o.invoked
               /\ UNCHANGED <<pc, Config, op, x_len, is_abstain, n, class_select,
                              counts_est, count_class, prob_class, radius, printed,
                              failed_at, result, error, Attack>>

\* the loop is over: report the abstentions and return
PredictReturn ==
    /\ pc = "predict_loop"
    /\ i = x_len
    /\ printed' = IF n_abstained > 0 THEN n_abstained ELSE printed
    /\ result' = prediction
    /\ pc' = "returned"
    /\ ClearLocals
    /\ UNCHANGED <<Config, op, x_len, i, is_abstain, n, calls, failed_at, error,
                   Attack>>

CallCertify(len, nn) ==
    /\ pc \in Quiescent \ {"new"}
    /\ pc' = "certify_select"
    /\ op' = "certify"
    /\ x_len' = len
    /\ n' = nn
    /\ i' = 0
    /\ ClearLocals
    /\ printed' = 0
    /\ calls' = <<>>
    /\ failed_at' = 0
    /\ result' = <<>>
    /\ error' = "none"
    /\ is_abstain' = TRUE
    /\ UNCHANGED <<Config, Attack>>

\* first half of certify's loop body: the selection pass; what the previous
\* pass left in counts_est, count_class and prob_class is overwritten before it
\* is read again and is dropped here
CertifySelect ==
    /\ pc = "certify_select"
    /\ i < x_len
    /\ \E o \in _prediction_counts(None) :
          IF o.err # "none" THEN Raise(o.err, o.invoked)
          ELSE /\ counts_pred' = o.counts
               /\ class_select' = argmax(o.counts)
               /\ calls' = calls \o o.invoked
               /\ pc' = "certify_estimate"
               /\ counts_est' = <<>>
               /\ count_class' = 0
               /\ prob_class' = 0
               /\ UNCHANGED <<Config, op, x_len, i, is_abstain, n, n_abstained,
                              prediction, radius, printed, failed_at, result, error,
                              Attack>>

\* second half of certify's loop body: the estimation pass and the decision;
\* counts_pred is not read after class_select was taken from it and is dropped
CertifyEstimate ==
    /\ pc = "certify_estimate"
    /\ \E o \in _prediction_counts(<<n>>) :
          IF o.err # "none" THEN Raise(o.err, o.invoked)
          ELSE LET cc == CountClass(counts_pred, o.counts, class_select)
                   prob == _lower_confidence_bound(cc, n)
                   pair == Certified(class_select, prob)
               IN  /\ counts_est' = o.counts
                   /\ count_class' = cc
                   /\ prob_class' = prob
                   /\ prediction' = Append(prediction, pair[1])
                   /\ radius' = Append(radius, pair[2])
                   /\ i' = i + 1
                   /\ calls' = calls \o o.invoked
                   /\ pc' = "certify_select"
                   /\ counts_pred' = <<>>
                   /\ UNCHANGED <<Config, op, x_len, is_abstain, n, class_select,
                                  n_abstained, printed, failed_at, result, error,
                                  Attack>>

CertifyReturn ==
    /\ pc = "certify_select"
    /\ i = x_len
    /\ result' = <<prediction, radius>>
    /\ pc' = "returned"
    /\ ClearLocals
    /\ UNCHANGED <<Config, op, x_len, i, is_abstain, n, printed, calls, failed_at,
                   error, Attack>>

\* AutoAttack.generate: the body is `pass`
generate ==
    /\ pc \in Quiescent
    /\ attack_op' = "generate"
    /\ attack_out' = "None"
    /\ UNCHANGED <<pc, Config, op, x_len, i, is_abstain, n, Locals, printed, calls,
                   failed_at, result, error>>

\* AutoAttack.set_params: the body is `pass`
set_params ==
    /\ pc \in Quiescent
    /\ attack_op' = "set_params"
    /\ attack_out' = "None"
    /\ UNCHANGED <<pc, Config, op, x_len, i, is_abstain, n, Locals, printed, calls,
                   failed_at, result, error>>

Next ==
    \/ \E ss \in SampleSizes, sc \in Scales, al \in Alphas, K \in 1 .. MaxClasses :
          __init__(ss, sc, al, K)
    \/ \E len \in 0 .. MaxInputs, abstain \in BOOLEAN : CallPredict(len, abstain)
    \/ PredictIteration
    \/ PredictReturn
    \/ \E len \in 0 .. MaxInputs, nn \in 0 .. MaxN : CallCertify(len, nn)
    \/ CertifySelect
    \/ CertifyEstimate
    \/ CertifyReturn
    \/ generate
    \/ set_params

Spec == Init /\ [][Next]_vars

\* ---------------------------------------------------------------- properties
\* the configuration invariant of the data model
ValidAlpha == alpha[1] > 0 /\ alpha[1] < alpha[2]

ValidConfig == sample_size > 0 /\ scale > 0 /\ ValidAlpha

IsZero(v) == \A c \in DOMAIN v : v[c] = 0

IsOneHot(v) ==
    \E c \in DOMAIN v : v[c] = 1 /\ \A d \in DOMAIN v : d # c => v[d] = 0

ZeroCount(vs) == Cardinality({k \in DOMAIN vs : IsZero(vs[k])})

RECURSIVE SumFrom(_, _)
SumFrom(f, c) == IF c \notin DOMAIN f THEN 0 ELSE f[c] + SumFrom(f, c + 1)

IsVoteCounts(counts, rows) ==
    /\ DOMAIN counts = 0 .. nb_classes - 1
    /\ \A c \in DOMAIN counts : counts[c] \in Nat
    /\ SumFrom(counts, 0) = rows

FloatLeq(x, y) == x # NaN /\ y # NaN /\ x <= y

\* C1: with a valid configuration and a classifier that returns its score
\* matrix, predict(x, is_abstain=False) never fails and every prediction it has
\* made is the one-hot vector of the arg-max class.
C1_NoAbstainAlwaysOneHot ==
    (op = "predict" /\ ~is_abstain /\ ValidConfig /\ error # "InferenceError")
    => /\ pc # "raised"
       /\ \A k \in DOMAIN prediction : IsOneHot(prediction[k])
       /\ \A k \in DOMAIN result : IsOneHot(result[k])
       /\ (pc = "predict_loop" /\ i > 0)
              => prediction[i] = OneHot(nb_classes, argmax(counts_pred))

\* C2: under is_abstain=True every prediction made is either the one-hot
\* vector of the arg-max class or the all-zero vector, the abstention counter
\* equals the number of all-zero vectors made so far, and when predict returns
\* the count it reports is the number of all-zero vectors it returns.
C2_AbstainOneHotOrZero ==
    (op = "predict" /\ is_abstain)
    => /\ \A k \in DOMAIN prediction : IsOneHot(prediction[k]) \/ IsZero(prediction[k])
       /\ (pc = "predict_loop" /\ i > 0 /\ ~IsZero(prediction[i]))
              => prediction[i] = OneHot(nb_classes, argmax(counts_pred))
       /\ pc = "predict_loop"
              => /\ n_abstained = ZeroCount(prediction)
                 /\ Len(prediction) = i
       /\ pc = "returned"
              => /\ \A k \in DOMAIN result : IsOneHot(result[k]) \/ IsZero(result[k])
                 /\ Len(result) = x_len
                 /\ printed = ZeroCount(result)

C2_Witness ==
    /\ op = "predict"
    /\ is_abstain
    /\ pc = "returned"
    /\ Len(result) = 1
    /\ IsZero(result[1])
    /\ printed = 1

\* C3: with a valid configuration and n > 0, every (class, radius) pair of
\* certify has a radius >= 0, and the radius is 0.0 exactly when the class is
\* the sentinel -1.
C3_RadiusZeroIffSentinel ==
    (op = "certify" /\ ValidConfig /\ n > 0)
    => \A k \in DOMAIN prediction :
          /\ radius[k] \in {"zero", "pos", "+inf"}
          /\ (radius[k] = "zero") <=> (prediction[k] = 0 - 1)

\* C4: no instance exists whose configuration violates 0 < alpha < 1,
\* scale > 0, sample_size > 0.
C4_ConfigValidated == pc # "new" => ValidConfig

\* C5: for an even sample_size and alpha in (0,1), when the votes of an input
\* are split in half between two classes, predict with is_abstain=True gives
\* the all-zero vector for it and counts it as an abstention.
C5_EvenSplitAbstains ==
    (/\ op = "predict"
     /\ is_abstain
     /\ pc = "predict_loop"
     /\ i > 0
     /\ ValidAlpha
     /\ sample_size % 2 = 0
     /\ \E a, b \in DOMAIN counts_pred :
           /\ a # b
           /\ counts_pred[a] = sample_size \div 2
           /\ counts_pred[b] = sample_size \div 2
           /\ \A c \in DOMAIN counts_pred \ {a, b} : counts_pred[c] = 0)
    => /\ IsZero(prediction[i])
       /\ n_abstained >= 1
       /\ n_abstained = ZeroCount(prediction)

C5_Witness ==
    /\ op = "predict"
    /\ is_abstain
    /\ pc = "predict_loop"
    /\ i = 1
    /\ ValidAlpha
    /\ sample_size = 2
    /\ nb_classes = 3
    /\ counts_pred = [c \in 0 .. 2 |-> IF c = 1 THEN 0 ELSE 1]
    /\ IsZero(prediction[1])
    /\ n_abstained = 1

\* C6: once the classifier has raised, the call has ended with that error:
\* the failing invocation is the last one of the call, the error is the
\* classifier's, and nothing is returned.
C6_InferenceErrorPropagates ==
    /\ failed_at > 0
          => /\ pc = "raised"
             /\ error = "InferenceError"
             /\ result = <<>>
             /\ Len(calls) = failed_at
    /\ (pc = "raised" /\ error = "InferenceError") => failed_at > 0

C6_Witness ==
    /\ op = "certify"
    /\ pc = "raised"
    /\ error = "InferenceError"
    /\ failed_at = 2
    /\ Len(calls) = 2
    /\ result = <<>>

\* C7: in certify with n > 0 and alpha in (0,1), a selected class with no vote
\* in the estimation batch has lower bound 0 and gives class -1 with radius
\* 0.0, and a unanimous estimation batch has the largest lower bound any count
\* in 0..n has.
C7_BoundaryCounts ==
    (op = "certify" /\ pc = "certify_select" /\ i > 0 /\ n > 0 /\ ValidAlpha)
    => /\ count_class = 0
              => /\ prob_class = 0
                 /\ prediction[i] = 0 - 1
                 /\ radius[i] = "zero"
       /\ count_class = n
              => \A k \in 0 .. n : FloatLeq(_lower_confidence_bound(k, n), prob_class)

C7_Witness ==
    /\ op = "certify"
    /\ pc = "certify_select"
    /\ i = 1
    /\ n = 2
    /\ ValidAlpha
    /\ count_class = n
    /\ prob_class > Half
    /\ prediction[1] = class_select

\* C8: every invocation of generate or set_params of AutoAttack ends with a
\* "not implemented" error.
C8_AttackNotImplemented ==
    attack_op # "none" => attack_out = "NotImplementedError"

\* C9: for each input certify invokes the classifier twice, first with
\* sample_size samples and then with n; class_select is the arg-max of the
\* first pass, count_class is the second pass's count at class_select, and the
\* lower bound is taken from (count_class, n).
C9_TwoPasses ==
    op = "certify"
    => /\ \A k \in DOMAIN calls :
             calls[k] = IF k % 2 = 1 THEN sample_size ELSE n
       /\ pc = "certify_estimate"
              => /\ Len(calls) = 2 * i + 1
                 /\ class_select = argmax(counts_pred)
       /\ pc = "certify_select"
              => /\ Len(calls) = 2 * i
                 /\ i > 0 => /\ count_class = counts_est[class_select]
                             /\ prob_class = _lower_confidence_bound(count_class, n)

C9_Witness ==
    /\ op = "certify"
    /\ pc = "certify_select"
    /\ i = 1
    /\ calls = <<1, 2>>
    /\ counts_est[class_select] = 0
    /\ count_class = 0

====
